---- MODULE Spec2Model ----
(***************************************************************************)
(* stack_pool<T, N>: a pool of singly linked stacks that live in one       *)
(* std::vector<node_t>, addressed by 1-based indexes of type N, with the   *)
(* released nodes threaded on a free list (src/exam/stack_pool.hpp).       *)
(*                                                                         *)
(* The pool object is the record [pool, free_nodes, cap, N_digits]; every  *)
(* member function is an operator from such a record (and its arguments)   *)
(* to the record after the call and the returned value.  The caller is     *)
(* modelled by `heads`: the stack heads it holds, each replaced by the     *)
(* handle the call on it returns.                                          *)
(***************************************************************************)
EXTENDS Integers, Sequences, FiniteSets, TLC

\* Largest number of nodes the vector is allowed to grow to in Spec.
MaxNodes == 3
\* Largest argument of reserve.
MaxReserve == 2
\* std::numeric_limits<size_type>::digits of std::vector<node_t>::size_type.
SizeDigits == 64
\* Digits of the index type of the narrow instantiation stack_pool<T, unsigned char>.
NarrowDigits == 8

\* The stacks the caller holds and the values of type T it pushes.
Stacks == {1, 2}
Values == {10, 20}

VARIABLES
  pool,        \* std::vector<node_t> pool, as a sequence of [value, next]
  free_nodes,  \* stack_type free_nodes: head of the free list
  cap,         \* pool.capacity()
  N_digits,    \* digits of the template parameter N (fixed at instantiation)
  heads,       \* the caller's stack heads
  last,        \* the call just made: its name, stack, arguments and returned handle
  freed,       \* handles released by the latest free_stack, not reused since,
               \* while no pop was called
  released     \* the handles pop and free_stack released and no push reused
               \* yet, in the order of their release

vars == <<pool, free_nodes, cap, N_digits, heads, last, freed, released>>

\* The stack_pool object.
This == [pool |-> pool, free_nodes |-> free_nodes, cap |-> cap, N_digits |-> N_digits]

Max(a, b) == IF a >= b THEN a ELSE b

----------------------------------------------------------------------------
\* The member functions.

node_t(val, n) == [value |-> val, next |-> n]

end == 0

empty(x) == x = end

\* pool[x - 1] of the 0-based vector is element (x - 1) + 1 of the sequence.
node(p, x) == p.pool[(x - 1) + 1]

value(p, x) == node(p, x).value

next(p, x) == node(p, x).next

new_stack == end

capacity(p) == p.cap

\* static_cast<stack_type>(n) of a size_type n: the value modulo 2^digits of N.
static_cast(p, n) ==
  IF p.N_digits >= SizeDigits THEN n ELSE n % (2 ^ p.N_digits)

\* The capacities a vector of size = capacity = len may have after growing by
\* one element: exact fit, growth by half, doubling.
NewCapacities(len) ==
  {c \in {len + 1, len + (len \div 2), 2 * len} : c >= len + 1}

\* pool.emplace_back(val, head); c is the capacity taken if the vector is full.
emplace_back(p, val, head, c) ==
  [p EXCEPT !.pool = Append(@, node_t(val, head)),
            !.cap = IF Len(p.pool) < p.cap THEN p.cap ELSE c]

\* reserve that asks the vector for one node less: pool.reserve(n - 1).
reserve_one_less(p, n) ==
  [p EXCEPT !.cap = IF n - 1 > p.cap THEN n - 1 ELSE p.cap]

\* pool.reserve(n): grows the capacity to n when n exceeds it.
reserve(p, n) ==
  [p EXCEPT !.cap = IF n > p.cap THEN n ELSE p.cap]

\* _push that leaves the reused node's next link as the free list had it.
_push_keeps_next(p, val, head, c) ==
  IF empty(p.free_nodes)
    THEN LET q == emplace_back(p, val, head, c)
         IN  [p |-> q, ret |-> static_cast(q, Len(q.pool))]
    ELSE LET tmp == p.free_nodes
             q1 == [p EXCEPT !.free_nodes = next(p, p.free_nodes)]
             q2 == [q1 EXCEPT !.pool[(tmp - 1) + 1].value = val]
         IN  [p |-> q2, ret |-> tmp]

\* _push that appends the new node with next = end() instead of head.
_push_append_unlinked(p, val, head, c) ==
  IF empty(p.free_nodes)
    THEN LET q == emplace_back(p, val, end, c)
         IN  [p |-> q, ret |-> static_cast(q, Len(q.pool))]
    ELSE LET tmp == p.free_nodes
             q1 == [p EXCEPT !.free_nodes = next(p, p.free_nodes)]
             q2 == [q1 EXCEPT !.pool[(tmp - 1) + 1].value = val]
             q3 == [q2 EXCEPT !.pool[(tmp - 1) + 1].next = head]
         IN  [p |-> q3, ret |-> tmp]

\* _push that reuses the free-list head without taking it off the free list.
_push_no_advance(p, val, head, c) ==
  IF empty(p.free_nodes)
    THEN LET q == emplace_back(p, val, head, c)
         IN  [p |-> q, ret |-> static_cast(q, Len(q.pool))]
    ELSE LET tmp == p.free_nodes
             q2 == [p EXCEPT !.pool[(tmp - 1) + 1].value = val]
             q3 == [q2 EXCEPT !.pool[(tmp - 1) + 1].next = head]
         IN  [p |-> q3, ret |-> tmp]

\* _push that never looks at the free list.
_push_always_append(p, val, head, c) ==
  LET q == emplace_back(p, val, head, c)
  IN  [p |-> q, ret |-> static_cast(q, Len(q.pool))]

\* _push that links the reused node but leaves the value it held.
_push_keeps_value(p, val, head, c) ==
  IF empty(p.free_nodes)
    THEN LET q == emplace_back(p, val, head, c)
         IN  [p |-> q, ret |-> static_cast(q, Len(q.pool))]
    ELSE LET tmp == p.free_nodes
             q1 == [p EXCEPT !.free_nodes = next(p, p.free_nodes)]
             q3 == [q1 EXCEPT !.pool[(tmp - 1) + 1].next = head]
         IN  [p |-> q3, ret |-> tmp]

\* _push whose reuse branch also appends the node: the free-list head is
\* taken and a copy of the node is emplaced at the back.
_push_reuse_appends(p, val, head, c) ==
  IF empty(p.free_nodes)
    THEN LET q == emplace_back(p, val, head, c)
         IN  [p |-> q, ret |-> static_cast(q, Len(q.pool))]
    ELSE LET tmp == p.free_nodes
             q1 == [p EXCEPT !.free_nodes = next(p, p.free_nodes)]
             q2 == [q1 EXCEPT !.pool[(tmp - 1) + 1].value = val]
             q3 == [q2 EXCEPT !.pool[(tmp - 1) + 1].next = head]
             q4 == emplace_back(q3, val, head, c)
         IN  [p |-> q4, ret |-> tmp]

_push(p, val, head, c) ==
  IF empty(p.free_nodes)
    THEN LET q == emplace_back(p, val, head, c)
         IN  [p |-> q, ret |-> static_cast(q, Len(q.pool))]
    ELSE LET tmp == p.free_nodes
             q1 == [p EXCEPT !.free_nodes = next(p, p.free_nodes)]
             q2 == [q1 EXCEPT !.pool[(tmp - 1) + 1].value = val]
             q3 == [q2 EXCEPT !.pool[(tmp - 1) + 1].next = head]
         IN  [p |-> q3, ret |-> tmp]

push(p, val, head, c) == _push(p, val, head, c)

\* pop that does not make the popped node the free-list head.
pop_no_splice(p, x) ==
  IF empty(x)
    THEN [p |-> p, ret |-> end]
    ELSE LET tmp == next(p, x)
             q1 == [p EXCEPT !.pool[(x - 1) + 1].next = p.free_nodes]
         IN  [p |-> q1, ret |-> tmp]

\* pop with its two assignments swapped: free_nodes = x; next(x) = free_nodes.
pop_splice_first(p, x) ==
  IF empty(x)
    THEN [p |-> p, ret |-> end]
    ELSE LET tmp == next(p, x)
             q1 == [p EXCEPT !.free_nodes = x]
             q2 == [q1 EXCEPT !.pool[(x - 1) + 1].next = q1.free_nodes]
         IN  [p |-> q2, ret |-> tmp]

\* pop that assigns free_nodes = x before it tests empty(x).
pop_late_check(p, x) ==
  IF empty(x)
    THEN [p |-> [p EXCEPT !.free_nodes = x], ret |-> end]
    ELSE LET tmp == next(p, x)
             q1 == [p EXCEPT !.pool[(x - 1) + 1].next = p.free_nodes]
             q2 == [q1 EXCEPT !.free_nodes = x]
         IN  [p |-> q2, ret |-> tmp]

\* pop that does not overwrite next(x): free_nodes = x; return next(x).
pop_keeps_next(p, x) ==
  IF empty(x)
    THEN [p |-> p, ret |-> end]
    ELSE LET tmp == next(p, x)
             q2 == [p EXCEPT !.free_nodes = x]
         IN  [p |-> q2, ret |-> tmp]

\* pop that also resets the value of the popped node: value(x) = T{}.
pop_clears_value(p, x) ==
  IF empty(x)
    THEN [p |-> p, ret |-> end]
    ELSE LET tmp == next(p, x)
             q0 == [p EXCEPT !.pool[(x - 1) + 1].value = 0]
             q1 == [q0 EXCEPT !.pool[(x - 1) + 1].next = p.free_nodes]
             q2 == [q1 EXCEPT !.free_nodes = x]
         IN  [p |-> q2, ret |-> tmp]

pop(p, x) ==
  IF empty(x)
    THEN [p |-> p, ret |-> end]
    ELSE LET tmp == next(p, x)
             q1 == [p EXCEPT !.pool[(x - 1) + 1].next = p.free_nodes]
             q2 == [q1 EXCEPT !.free_nodes = x]
         IN  [p |-> q2, ret |-> tmp]

\* while (!empty(x)) x = pop(x); return x.  pops counts the loop's iterations.
RECURSIVE free_stack_loop(_, _, _)
free_stack_loop(p, x, pops) ==
  IF ~empty(x)
    THEN LET r == pop(p, x)
         IN  free_stack_loop(r.p, r.ret, pops + 1)
    ELSE [p |-> p, ret |-> x, pops |-> pops]

\* free_stack with `if` in place of `while`: it pops once.
free_stack_if(p, x) ==
  IF ~empty(x)
    THEN LET r == pop(p, x)
         IN  [p |-> r.p, ret |-> r.ret, pops |-> 1]
    ELSE [p |-> p, ret |-> x, pops |-> 0]

\* free_stack whose loop stops at the last node: while (!empty(x) && !empty(next(x))).
RECURSIVE free_stack_leaves_last_loop(_, _, _)
free_stack_leaves_last_loop(p, x, pops) ==
  IF ~empty(x) /\ ~empty(next(p, x))
    THEN LET r == pop(p, x)
         IN  free_stack_leaves_last_loop(r.p, r.ret, pops + 1)
    ELSE [p |-> p, ret |-> x, pops |-> pops]

free_stack_leaves_last(p, x) == free_stack_leaves_last_loop(p, x, 0)

\* free_stack that splices the whole chain onto the free list at once: it
\* walks to the last node, links it to the free list and makes x the head.
RECURSIVE free_stack_splice_loop(_, _, _, _)
free_stack_splice_loop(p, x, cur, pops) ==
  IF ~empty(next(p, cur))
    THEN free_stack_splice_loop(p, x, next(p, cur), pops + 1)
    ELSE LET q1 == [p EXCEPT !.pool[(cur - 1) + 1].next = p.free_nodes]
             q2 == [q1 EXCEPT !.free_nodes = x]
         IN  [p |-> q2, ret |-> end, pops |-> pops + 1]

free_stack_splice(p, x) ==
  IF empty(x)
    THEN [p |-> p, ret |-> x, pops |-> 0]
    ELSE free_stack_splice_loop(p, x, x, 0)

free_stack(p, x) == free_stack_loop(p, x, 0)

----------------------------------------------------------------------------
\* The iterator: _iterator<stack_pool, N, T> holds the handle `current`.

iterator(x) == [current |-> x]

begin(x) == iterator(x)

\* end(stack_type x) that starts the iterator at x instead of end().
end_it_at_x(x) == iterator(x)

end_it(x) == iterator(end)

deref(p, it) == value(p, it.current)

incr(p, it) == [it EXCEPT !.current = next(p, it.current)]

iter_eq(x, y) == x.current = y.current

iter_ne(x, y) == ~iter_eq(x, y)

\* for (auto it = begin(x); it != end(x); ++it) out.push_back(*it);
RECURSIVE range_loop(_, _, _, _)
range_loop(p, it, last_it, out) ==
  IF iter_ne(it, last_it)
    THEN range_loop(p, incr(p, it), last_it, Append(out, deref(p, it)))
    ELSE out

Iterate(p, x) == range_loop(p, begin(x), end_it(x), <<>>)

----------------------------------------------------------------------------
\* Chains of next links, walked for a bounded number of steps.

\* The handle n steps of next after x; the sentinel stays the sentinel, and so
\* does a handle that indexes no node of the vector.
RECURSIVE Walk(_, _, _)
Walk(p, x, n) ==
  IF n = 0 \/ x < 1 \/ x > Len(p.pool)
    THEN (IF x < 1 \/ x > Len(p.pool) THEN end ELSE x)
    ELSE Walk(p, next(p, x), n - 1)

\* The nodes met from x in at most size-of-storage steps.
Reach(p, x) == {Walk(p, x, i) : i \in 0..Len(p.pool)} \ {end}

\* The chain from x ends at the sentinel within size-of-storage steps.
Ends(p, x) == Walk(p, x, Len(p.pool)) = end

\* The number of next steps from x to the sentinel; size-of-storage + 1 if the
\* sentinel is not met within size-of-storage steps.
Length(p, x) ==
  IF Ends(p, x)
    THEN CHOOSE i \in 0..Len(p.pool) :
           /\ Walk(p, x, i) = end
           /\ \A j \in 0..(i - 1) : Walk(p, x, j) # end
    ELSE Len(p.pool) + 1

FreeList(p) == Reach(p, p.free_nodes)

\* The handles of the chain from x, head first: the order in which the loop
\* of free_stack(x) pops them.
Handles(p, x) == [i \in 1..Length(p, x) |-> Walk(p, x, i - 1)]

----------------------------------------------------------------------------
\* The calls.

\* note: for a push, "grow" (appended to a full vector), "append" or "reuse";
\* for a pop, "undo" when the call before it was a push on the same stack.
Call(op, s, v, x, ret, note) ==
  [op |-> op, s |-> s, v |-> v, x |-> x, ret |-> ret, note |-> note]

Commit(q) ==
  /\ pool' = q.pool
  /\ free_nodes' = q.free_nodes
  /\ cap' = q.cap
  /\ N_digits' = q.N_digits

InitPool ==
  /\ pool = <<>>
  /\ free_nodes = end
  /\ cap = 0
  /\ heads = [s \in Stacks |-> new_stack]
  /\ last = Call("stack_pool", 0, 0, 0, 0, "")
  /\ freed = {}
  /\ released = <<>>

\* stack_pool<T> pool{}: N defaults to std::size_t.
Init == InitPool /\ N_digits = SizeDigits

\* h = new_stack(), kept in a slot that holds no stack.
NewStack(s) ==
  /\ empty(heads[s])
  /\ heads' = [heads EXCEPT ![s] = new_stack]
  /\ last' = Call("new_stack", s, 0, 0, new_stack, "")
  /\ UNCHANGED <<pool, free_nodes, cap, N_digits, freed, released>>

\* empty(heads[s])
Empty(s) ==
  /\ empty(heads[s]) \in BOOLEAN
  /\ last' = Call("empty", 0, 0, 0, 0, "")
  /\ UNCHANGED <<pool, free_nodes, cap, N_digits, heads, freed, released>>

\* reserve(n)
Reserve(n) ==
  /\ Commit(reserve(This, n))
  /\ last' = Call("reserve", 0, 0, 0, 0, "")
  /\ UNCHANGED <<heads, freed, released>>

\* heads[s] = push(v, heads[s]), the vector growing to capacity c if it is full.
PushCall(s, v, c) ==
  LET r == push(This, v, heads[s], c)
  IN  /\ Commit(r.p)
      /\ heads' = [heads EXCEPT ![s] = r.ret]
      /\ last' = Call("push", s, v, heads[s], r.ret,
                       IF ~empty(free_nodes) THEN "reuse"
                       ELSE IF Len(pool) < cap THEN "append" ELSE "grow")
      /\ freed' = IF r.ret \in freed THEN freed \ {r.ret} ELSE {}
      /\ released' = IF ~empty(free_nodes) /\ released # <<>>
                        THEN SubSeq(released, 1, Len(released) - 1)
                        ELSE released

\* The capacities the vector may have after the next push: its own unless the
\* push appends to a full vector.
PushCapacities ==
  IF empty(free_nodes) /\ Len(pool) = cap THEN NewCapacities(Len(pool)) ELSE {cap}

Push(s, v) ==
  /\ ~empty(free_nodes) \/ Len(pool) < MaxNodes
  /\ \E c \in PushCapacities : PushCall(s, v, c)

\* heads[s] = pop(heads[s])
Pop(s) ==
  LET r == pop(This, heads[s])
  IN  /\ Commit(r.p)
      /\ heads' = [heads EXCEPT ![s] = r.ret]
      /\ last' = Call("pop", s, 0, heads[s], r.ret,
                      IF last.op = "push" /\ last.s = s THEN "undo" ELSE "")
      /\ freed' = {}
      /\ released' = IF empty(heads[s]) THEN released
                      ELSE Append(released, heads[s])

\* heads[s] = free_stack(heads[s])
FreeStack(s) ==
  LET r == free_stack(This, heads[s])
  IN  /\ Commit(r.p)
      /\ heads' = [heads EXCEPT ![s] = r.ret]
      /\ last' = Call("free_stack", s, 0, heads[s], r.ret, "")
      /\ freed' = FreeList(r.p) \ FreeList(This)
      /\ released' = released \o Handles(This, heads[s])

Next ==
  \/ \E s \in Stacks : NewStack(s)
  \/ \E s \in Stacks : Empty(s)
  \/ \E n \in 0..MaxReserve : Reserve(n)
  \/ \E s \in Stacks, v \in Values : Push(s, v)
  \/ \E s \in Stacks : Pop(s)
  \/ \E s \in Stacks : FreeStack(s)

Spec == Init /\ [][Next]_vars

\* stack_pool<T, unsigned char> pool{}, filled by pushes on one stack.
InitNarrow == InitPool /\ N_digits = NarrowDigits

PushNarrow ==
  /\ Len(pool) < 2 ^ NarrowDigits
  /\ \E c \in PushCapacities : PushCall(1, 10, c)

NextNarrow == PushNarrow

SpecNarrow == InitNarrow /\ [][NextNarrow]_vars

----------------------------------------------------------------------------
\* The properties of the pool.

\* Largest number of successive pushes tried from each reachable state.
MaxPushes == 2

\* h = new_stack(); for (v : vs from index i) h = push(v, h);
RECURSIVE push_all(_, _, _, _)
push_all(p, h, vs, i) ==
  IF i > Len(vs)
    THEN [p |-> p, ret |-> h]
    ELSE LET r == push(p, vs[i], h, Len(p.pool) + 1)
         IN  push_all(r.p, r.ret, vs, i + 1)

\* h = pop(h), k times.
RECURSIVE pop_times(_, _, _)
pop_times(p, h, k) ==
  IF k = 0
    THEN [p |-> p, ret |-> h]
    ELSE LET r == pop(p, h)
         IN  pop_times(r.p, r.ret, k - 1)

Reverse(vs) == [i \in 1..Len(vs) |-> vs[Len(vs) + 1 - i]]

\* The chains of the pool: the caller's stacks and, as chain 0, the free list.
Chains == Stacks \cup {0}

Start(p, hs, c) == IF c = 0 THEN p.free_nodes ELSE hs[c]

RECURSIVE SumLengths(_, _, _)
SumLengths(p, hs, cs) ==
  IF cs = {}
    THEN 0
    ELSE LET c == CHOOSE d \in cs : TRUE
         IN  Length(p, Start(p, hs, c)) + SumLengths(p, hs, cs \ {c})

\* The nodes of the caller's stacks.
LiveHandles == UNION {Reach(This, heads[t]) : t \in Stacks}

\* C1: from every reachable pool state, pushing v1, ..., vk in that order onto
\* an empty stack, each push on the head the previous one returned, gives a
\* head whose iteration begin(head)..end() yields vk, ..., v1 and stops.
C1_PushesIterateLIFO ==
  \A k \in 0..MaxPushes :
    \A vs \in [1..k -> Values] :
      LET r == push_all(This, new_stack, vs, 1)
      IN  Iterate(r.p, r.ret) = Reverse(vs)

\* push(10) then push(20) were made on an empty stack while the free list held
\* a node, and the stack iterates as [20, 10].
C1_Witness ==
  /\ last.op = "push"
  /\ last.v = 20
  /\ Iterate(This, heads[last.s]) = <<20, 10>>
  /\ ~empty(free_nodes)

\* C2: a pop made right after a push on the same stack returns the head that
\* push was given, and the node it puts at the front of the free list is the
\* handle that push returned, still holding the pushed value.
C2_PopUndoesPush ==
  [][(last.op = "push" /\ last'.op = "pop" /\ last'.s = last.s)
       => /\ last'.x = last.ret
          /\ last'.ret = last.x
          /\ free_nodes' = last.ret
          /\ value(This', free_nodes') = last.v]_vars

\* A pop undid a push made on a live (non-empty) head.
C2_Witness ==
  /\ last.op = "pop"
  /\ last.note = "undo"
  /\ ~empty(last.ret)
  /\ ~empty(next(This, free_nodes))

\* C3: every node index 1..size is on exactly one chain (one stack or the free
\* list), and the size of the storage is the sum of the chains' lengths.
C3_OneChainPerNode ==
  /\ \A n \in 1..Len(pool) :
       Cardinality({c \in Chains : n \in Reach(This, Start(This, heads, c))}) = 1
  /\ Len(pool) = SumLengths(This, heads, Chains)

\* Both stacks and the free list hold a node.
C3_Witness ==
  /\ \A c \in Chains : ~empty(Start(This, heads, c))
  /\ last.op = "pop"

\* C4: from every stack head and from the free-list head the sentinel is met
\* within size-of-storage steps of next: no chain has a cycle.
C4_ChainsEnd ==
  \A c \in Chains : Ends(This, Start(This, heads, c))

\* One chain holds all the nodes: its walk takes size-of-storage steps.
C4_Witness ==
  /\ Len(pool) >= 3
  /\ \E c \in Chains : Length(This, Start(This, heads, c)) = Len(pool)
  /\ last.op \in {"push", "free_stack"}

\* C5: while handles released by the latest free_stack are not reused (and no
\* pop was called), a push returns one of them, each once, and does not grow
\* the storage.
C5_PushReusesFreed ==
  [][(last'.op = "push" /\ freed # {})
       => /\ last'.ret \in freed
          /\ freed' = freed \ {last'.ret}
          /\ Len(pool') = Len(pool)]_vars

\* A push reused a released handle, another is left, and the free list also
\* holds a node released before the free_stack.
C5_Witness ==
  /\ last.op = "push"
  /\ freed # {}
  /\ FreeList(This) \ freed # {}

\* C6: free_stack on a stack of length k returns the sentinel, leaves the size
\* and the capacity of the storage unchanged and lengthens the free list by k.
C6_FreeStackEmpties ==
  [][last'.op = "free_stack"
       => /\ last'.ret = end
          /\ empty(heads'[last'.s])
          /\ Len(pool') = Len(pool)
          /\ capacity(This') = capacity(This)
          /\ Length(This', free_nodes')
               = Length(This, free_nodes) + Length(This, last'.x)]_vars

\* free_stack released a stack of two nodes or more while another stack lives.
C6_Witness ==
  /\ last.op = "free_stack"
  /\ Cardinality(freed) >= 2
  /\ \E t \in Stacks : ~empty(heads[t])

\* C7: push never returns the sentinel: the handle it returns is the 1-based
\* index of a node of the storage, whatever the index type N.
C7_PushNeverSentinel ==
  last.op = "push" => (~empty(last.ret) /\ 1 <= last.ret /\ last.ret <= Len(pool))

\* C8: new_stack returns the sentinel, for which empty holds; pop and
\* free_stack on the sentinel return the sentinel and change nothing of the
\* pool (nodes, size, capacity, free-list head).
C8_SentinelNoOp ==
  [][/\ last'.op = "new_stack" => (last'.ret = end /\ empty(last'.ret))
     /\ (last'.op \in {"pop", "free_stack"} /\ last'.x = new_stack)
          => (last'.ret = end /\ This' = This)]_vars

\* pop was called on the sentinel while the pool held live and free nodes.
C8_Witness ==
  /\ last.op = "pop"
  /\ empty(last.x)
  /\ ~empty(free_nodes)
  /\ \E t \in Stacks : ~empty(heads[t])

\* C9: push, pop and free_stack on one stack leave the values iterated from
\* every other stack's head unchanged; a push that appends to the storage
\* leaves every node of a live stack with the same value and next link.
C9_OtherStacksUnchanged ==
  [][last'.op \in {"push", "pop", "free_stack"}
       => /\ \A t \in Stacks \ {last'.s} :
               /\ heads'[t] = heads[t]
               /\ Iterate(This', heads'[t]) = Iterate(This, heads[t])
          /\ (last'.op = "push" /\ empty(free_nodes))
               => \A h \in LiveHandles :
                    /\ h <= Len(pool')
                    /\ node(This', h) = node(This, h)]_vars

\* A push appended to a full vector (which relocates the nodes) while both
\* stacks held nodes.
C9_Witness ==
  /\ last.op = "push"
  /\ last.note = "grow"
  /\ ~empty(last.x)
  /\ \E t \in Stacks \ {last.s} : ~empty(heads[t])

\* C10: free_stack(h) on a stack of length k ends in the pool state and the
\* handle (the sentinel) that k successive pops from h end in.
C10_FreeStackIsKPops ==
  [][last'.op = "free_stack"
       => LET r == pop_times(This, last'.x, Length(This, last'.x))
          IN  /\ This' = r.p
              /\ last'.ret = r.ret
              /\ last'.ret = end]_vars

\* free_stack released a stack of two nodes or more onto a free list that
\* held a node already.
C10_Witness ==
  /\ last.op = "free_stack"
  /\ Cardinality(freed) >= 2
  /\ FreeList(This) \ freed # {}

\* C11: the number of nodes never decreases: it grows by exactly one on a
\* push made while the free list is empty and is unchanged by a push made
\* while it is not, and by every pop, free_stack, reserve, new_stack and empty.
C11_SizeMonotone ==
  [][/\ Len(pool') >= Len(pool)
     /\ (last'.op = "push" /\ empty(free_nodes)) => Len(pool') = Len(pool) + 1
     /\ (last'.op = "push" /\ ~empty(free_nodes)) => Len(pool') = Len(pool)
     /\ last'.op \in {"pop", "free_stack", "reserve", "new_stack", "empty"}
          => Len(pool') = Len(pool)]_vars

\* A push reused a free node of a pool of two nodes or more.
C11_Witness ==
  /\ last.op = "push"
  /\ last.note = "reuse"
  /\ Len(pool) >= 2
  /\ ~empty(last.x)

\* C12: push(val, head) with a non-empty free list returns the free-list head,
\* makes the free-list head that node's former next, sets the node to
\* {val, head} and appends nothing; with an empty free list it appends one
\* node {val, head}, returns the new size and leaves the free list empty.
C12_PushAlgorithm ==
  [][last'.op = "push"
       => IF ~empty(free_nodes)
            THEN /\ last'.ret = free_nodes
                 /\ free_nodes' = next(This, free_nodes)
                 /\ value(This', last'.ret) = last'.v
                 /\ next(This', last'.ret) = last'.x
                 /\ Len(pool') = Len(pool)
            ELSE /\ pool' = Append(pool, node_t(last'.v, last'.x))
                 /\ last'.ret = Len(pool')
                 /\ free_nodes' = end]_vars

\* A push onto a live head reused the free-list head, whose former next is
\* the free-list head now.
C12_Witness ==
  /\ last.op = "push"
  /\ last.note = "reuse"
  /\ ~empty(last.x)
  /\ ~empty(free_nodes)

\* C13: on a pool with no node, reserve(n) gives a capacity of at least n
\* that up to n pushes leave as it is; a push into spare capacity never
\* changes the capacity; reserve never lowers the capacity and changes no
\* node, no handle and not the free-list head.
C13_ReserveNoGrowth ==
  [][/\ Len(pool) = 0
          => \A n \in 0..MaxReserve :
               \A k \in 0..n :
                 \A vs \in [1..k -> Values] :
                   LET q == reserve(This, n)
                       r == push_all(q, new_stack, vs, 1)
                   IN  /\ capacity(q) >= n
                       /\ capacity(r.p) = capacity(q)
     /\ (last'.op = "push" /\ Len(pool) < capacity(This))
          => capacity(This') = capacity(This)
     /\ last'.op = "reserve"
          => /\ capacity(This') >= capacity(This)
             /\ \A n \in 0..MaxReserve : Reserve(n) => capacity(This') >= n
             /\ pool' = pool
             /\ free_nodes' = free_nodes
             /\ heads' = heads]_vars

\* The second push after reserve(2) on an empty pool: it filled the reserved
\* capacity without growing it.
C13_Witness ==
  /\ last.op = "push"
  /\ last.note = "append"
  /\ Len(pool) = 2
  /\ capacity(This) = 2

\* ++it, n times.
RECURSIVE incr_times(_, _, _)
incr_times(p, it, n) ==
  IF n = 0 THEN it ELSE incr_times(p, incr(p, it), n - 1)

\* The handles that pushes of the values vs, from index i on, return; each
\* push is made on the head the one before it returned.
RECURSIVE push_handles(_, _, _, _)
push_handles(p, h, vs, i) ==
  IF i > Len(vs)
    THEN <<>>
    ELSE LET r == push(p, vs[i], h, Len(p.pool) + 1)
         IN  <<r.ret>> \o push_handles(r.p, r.ret, vs, i + 1)

\* C14: two iterators are equal iff their current handles are equal; end(x)
\* is the iterator at the sentinel for every x; the iterator begin(h) of a
\* stack of length k equals end(x) after exactly k increments, not before.
C14_IteratorReachesEnd ==
  /\ \A a, b \in 0..Len(pool) : iter_eq(begin(a), begin(b)) <=> (a = b)
  /\ \A x \in 0..Len(pool) : end_it(x).current = end
  /\ \A s \in Stacks :
       LET k == Length(This, heads[s])
       IN  \A i \in 0..k :
             \A x \in 0..Len(pool) :
               iter_eq(incr_times(This, begin(heads[s]), i), end_it(x)) <=> (i = k)

\* A stack of three nodes: its iterator meets end(x) at the third increment.
C14_Witness ==
  \E s \in Stacks :
    /\ Length(This, heads[s]) = 3
    /\ iter_eq(incr_times(This, begin(heads[s]), 3), end_it(heads[s]))
    /\ iter_ne(incr_times(This, begin(heads[s]), 2), end_it(heads[s]))

\* C15: free_stack ends on every stack of the caller: on a stack of length k
\* its loop runs exactly k pops and returns.
C15_FreeStackLoopCount ==
  [][last'.op = "free_stack"
       => LET r == free_stack(This, last'.x)
          IN  /\ r.pops = Length(This, last'.x)
              /\ This' = r.p
              /\ last'.ret = r.ret]_vars

\* free_stack ran its loop three times.
C15_Witness ==
  /\ last.op = "free_stack"
  /\ Cardinality(freed) >= 3

\* C16 as first stated: after pop(x) on a non-empty head x, next(x) is the
\* free-list head of before the call and is not the former successor of x;
\* an iterator at x incremented after the pop stands at that free-list head.
C16_Original ==
  [][(last'.op = "pop" /\ ~empty(last'.x))
       => /\ next(This', last'.x) = free_nodes
          /\ next(This', last'.x) # next(This, last'.x)
          /\ incr(This', begin(last'.x)).current = free_nodes]_vars

\* C16, amended: after pop(x) on a non-empty head x, next(x) is the free-list
\* head of before the call; it differs from the former successor of x unless
\* both are the sentinel (x was the last node of its stack and the free list
\* was empty); an iterator at x incremented after the pop stands at that
\* free-list head.
C16_PopRelinksToFreeList ==
  [][(last'.op = "pop" /\ ~empty(last'.x))
       => /\ next(This', last'.x) = free_nodes
          /\ \/ next(This', last'.x) # next(This, last'.x)
             \/ empty(free_nodes) /\ empty(next(This, last'.x))
          /\ incr(This', begin(last'.x)).current = free_nodes]_vars

\* A pop took the head off a stack that keeps nodes, onto a free list that
\* held a node: next of the popped node leads into the free list.
C16_Witness ==
  /\ last.op = "pop"
  /\ ~empty(last.x)
  /\ ~empty(last.ret)
  /\ ~empty(next(This, last.x))
  /\ next(This, last.x) # last.ret

\* C17: pop(x) on a non-empty head x changes only next(x) and the free-list
\* head: every node keeps its value, the popped one too, every other node
\* keeps its next link, and size and capacity stay.
C17_PopFrame ==
  [][(last'.op = "pop" /\ ~empty(last'.x))
       => /\ Len(pool') = Len(pool)
          /\ capacity(This') = capacity(This)
          /\ \A h \in 1..Len(pool) :
               /\ value(This', h) = value(This, h)
               /\ h # last'.x => next(This', h) = next(This, h)]_vars

\* A pop released a node that holds 20 in a pool of three nodes.
C17_Witness ==
  /\ last.op = "pop"
  /\ ~empty(last.x)
  /\ Len(pool) >= 3
  /\ value(This, free_nodes) = 20

\* C18: a push made while the free list is not empty returns the handle
\* released last among those not reused; after free_stack on the nodes
\* n1, ..., nk (head first) the next k pushes return nk, ..., n1.
C18_FreeListLIFO ==
  [][/\ (last'.op = "push" /\ ~empty(free_nodes))
          => /\ released # <<>>
             /\ last'.ret = released[Len(released)]
     /\ last'.op = "free_stack"
          => LET ns == Handles(This, last'.x)
             IN  \A vs \in [1..Len(ns) -> Values] :
                   push_handles(This', new_stack, vs, 1) = Reverse(ns)]_vars

\* A push reused the handle free_stack released last; two released handles
\* or more are left, one of them from that free_stack.
C18_Witness ==
  /\ last.op = "push"
  /\ last.note = "reuse"
  /\ freed # {}
  /\ Len(released) >= 2

====
